---- MODULE Spec2Model ----
(***************************************************************************)
(* Model of duplicate_questions/models/base_tf_model.py: the training loop *)
(* of BaseTFModel.train (epoch/step bookkeeping, periodic summary,         *)
(* validation and checkpoint triggers, checkpoint retention, early         *)
(* stopping by patience) and the batch loop of BaseTFModel.predict.        *)
(*                                                                         *)
(* One behaviour is one call of train() or one call of predict(), chosen   *)
(* by the model's mode.  The network itself is abstract: a validation pass *)
(* yields some mean loss, a test instance yields one prediction row and    *)
(* one encoding row.  The training op is taken to increment the graph's    *)
(* global_step variable by one per run.                                    *)
(***************************************************************************)
EXTENDS Integers, Sequences, FiniteSets, TLC

\* ---------------------------------------------------------------- bounds
MaxEpochs == 3
MaxPatience == 1
MaxPeriod == 2
MaxKeep == 1
MaxBatches == 2
MaxLoss == 2
MaxTestBatches == 2
MaxBatchSize == 2
MaxTestSteps == 2
MaxCkptDir == 2

Losses == 1..MaxLoss
\* math.inf: larger than every finite validation loss
Inf == MaxLoss + 1
\* num_test_steps=None
None == <<>>

VARIABLES
    mode,                       \* self.mode: "train" or "predict"
    pc,                         \* position inside train() / predict()
    \* ---- arguments of train()
    num_epochs, num_train_steps_per_epoch, val_period, log_period,
    save_period, max_ckpts_to_keep, patience,
    num_train_batches,          \* batches one pass of the train generator yields
    \* ---- locals of train()
    epoch_bound, epoch,         \* the loop variable `epoch` (unbound before the first iteration)
    global_step,                \* the local global_step
    tf_global_step,             \* the graph variable self.global_step
    batches_left,               \* what train_batch_gen has still to yield
    val_loss, epoch_validation_losses, min_patience_val_loss,
    stopped_early,              \* the break at line 249 was taken
    reported,                   \* the epoch count logged at line 252
    ckpts,                      \* checkpoints on disk, oldest first (global steps)
    \* ---- observation of train()
    batches_consumed,           \* batches pulled from the train generators so far
    epoch_steps,                \* gradient updates run in the current epoch
    step_ops,                   \* what the current batch iteration has done, in order
    saved,                      \* every checkpoint ever written, oldest first
    \* ---- predict()
    num_test_steps, test_batches, test_left, restored,
    y_pred, encodings, y_pred_flat, encodings_flat

trainArgs == <<num_epochs, num_train_steps_per_epoch, val_period, log_period,
               save_period, max_ckpts_to_keep, patience, num_train_batches>>
trainVars == <<epoch_bound, epoch, global_step, tf_global_step, batches_left,
               val_loss, epoch_validation_losses, min_patience_val_loss,
               stopped_early, reported, batches_consumed, epoch_steps,
               step_ops, saved>>
predictVars == <<num_test_steps, test_batches, test_left, restored,
                 y_pred, encodings, y_pred_flat, encodings_flat>>
vars == <<mode, pc, trainArgs, trainVars, ckpts, predictVars>>

\* ------------------------------------------------------- pure helpers
\* Python's s[:-k] for k >= 1
PySliceDropLast(s, k) ==
    SubSeq(s, 1, IF Len(s) > k THEN Len(s) - k ELSE 0)

\* Python's min() of a non-empty list
RECURSIVE MinOf(_)
MinOf(s) ==
    IF Len(s) = 1 THEN s[1]
    ELSE LET m == MinOf(Tail(s)) IN IF s[1] <= m THEN s[1] ELSE m

\* np.concatenate(list_of_arrays, axis=0)
RECURSIVE Concatenate(_)
Concatenate(ss) ==
    IF ss = <<>> THEN <<>> ELSE Head(ss) \o Concatenate(Tail(ss))

\* global_step = sess.run(self.global_step) + 1
ReadStep(tf) ==
    tf + 1

\* if global_step % log_period == 0
ShouldLog(s) ==
    s % log_period = 0

\* if global_step % val_period == 0
ShouldValidate(s) ==
    s % val_period = 0

\* if global_step % save_period == 0
ShouldSaveOnValPeriod(s) ==
    s % val_period = 0
ShouldSave(s) ==
    s % save_period = 0

\* tf.train.Saver(max_to_keep=max_ckpts_to_keep)
SaverMaxToKeepPlusOne ==
    max_ckpts_to_keep + 1
SaverMaxToKeep ==
    max_ckpts_to_keep

\* saver.save(sess, save_path, global_step=step): a checkpoint written under
\* a name already on disk replaces it; with max_to_keep = 0 nothing is ever
\* deleted, otherwise the oldest are deleted down to max_to_keep.
SaverSave(onDisk, step, keep) ==
    LET others == SelectSeq(onDisk, LAMBDA c : c # step)
        all == Append(others, step)
    IN IF keep = 0 \/ Len(all) <= keep THEN all
       ELSE SubSeq(all, Len(all) - keep + 1, Len(all))

\* the end-of-epoch saver.save (line 220)
EndOfEpochSaveSkipped(onDisk, step) ==
    onDisk
EndOfEpochSave(onDisk, step) ==
    SaverSave(onDisk, step, SaverMaxToKeep)

\* tf.train.latest_checkpoint(model_load_dir)
LatestCheckpoint(onDisk) ==
    onDisk[Len(onDisk)]

\* epoch_validation_losses[:-(patience + 1)]
PatienceValLossesWindow(losses, p) ==
    SubSeq(losses, IF Len(losses) > p THEN Len(losses) - p ELSE 1, Len(losses) - 1)
PatienceValLosses(losses, p) ==
    PySliceDropLast(losses, p + 1)

\* min(patience_val_losses) if patience_val_losses else math.inf
MinPatienceValLoss(losses, p) ==
    LET pvl == PatienceValLosses(losses, p)
    IN IF pvl # <<>> THEN MinOf(pvl) ELSE Inf

\* ------------------------------------------------------------- Init
\* The test generator yields the instances 1, 2, 3, ... and the batch
\* generator cuts them into consecutive batches of 1 to MaxBatchSize
\* instances: the batches whose sizes are `sizes`, the first starting
\* after instance `from`.
RECURSIVE BatchesOfSizes(_, _)
BatchesOfSizes(sizes, from) ==
    IF sizes = <<>> THEN <<>>
    ELSE <<[i \in 1..Head(sizes) |-> from + i]>>
         \o BatchesOfSizes(Tail(sizes), from + Head(sizes))
TestBatchSeqs ==
    {BatchesOfSizes(sizes, 0) :
        sizes \in UNION {[1..n -> 1..MaxBatchSize] : n \in 0..MaxTestBatches}}
\* a directory holding the checkpoints of steps 1..n
CkptDirs ==
    {[i \in 1..n |-> i] : n \in 0..MaxCkptDir}

TrainLocalsInit ==
    /\ epoch_bound = FALSE
    /\ epoch = 0
    /\ global_step = 0
    /\ tf_global_step = 0
    /\ batches_left = 0
    /\ val_loss = Inf
    /\ epoch_validation_losses = <<>>
    /\ min_patience_val_loss = Inf
    /\ stopped_early = FALSE
    /\ reported = 0
    /\ batches_consumed = 0
    /\ epoch_steps = 0
    /\ step_ops = <<>>
    /\ saved = <<>>

PredictLocalsInit ==
    /\ test_left = <<>>
    /\ restored = 0
    /\ y_pred = <<>>
    /\ encodings = <<>>
    /\ y_pred_flat = <<>>
    /\ encodings_flat = <<>>

InitTrain ==
    /\ mode = "train"
    /\ pc = "for_epoch"
    /\ num_epochs \in 0..MaxEpochs
    /\ num_train_batches \in 0..MaxBatches
    \* the caller announces the generator's batch count, or a wrong one
    /\ num_train_steps_per_epoch \in {num_train_batches, num_train_batches + 1}
    /\ val_period \in 1..MaxPeriod
    /\ log_period \in 1..MaxPeriod
    /\ save_period \in 1..MaxPeriod
    /\ max_ckpts_to_keep \in 0..MaxKeep
    /\ patience \in 0..MaxPatience
    /\ ckpts = <<>>
    /\ TrainLocalsInit
    /\ PredictLocalsInit
    /\ num_test_steps = None
    /\ test_batches = <<>>

InitPredict ==
    /\ mode = "predict"
    /\ pc = "restore"
    /\ num_epochs = 0 /\ num_train_steps_per_epoch = 0 /\ num_train_batches = 0
    /\ val_period = 1 /\ log_period = 1 /\ save_period = 1
    /\ max_ckpts_to_keep = 0 /\ patience = 0
    /\ ckpts \in CkptDirs
    /\ TrainLocalsInit
    /\ PredictLocalsInit
    /\ num_test_steps \in {None} \cup {<<n>> : n \in 0..MaxTestSteps}
    /\ test_batches \in TestBatchSeqs

Init ==
    InitTrain \/ InitPredict

\* ------------------------------------------------------------ train()
\* every checkpoint name written so far, most recently written last
RecordSave(history, step) ==
    Append(SelectSeq(history, LAMBDA c : c # step), step)

\* for epoch in range(num_epochs): bind the next epoch and get a fresh
\* generator of train batches, or leave the loop when the range is exhausted
ForEpoch ==
    /\ mode = "train" /\ pc = "for_epoch"
    /\ LET nxt == IF epoch_bound THEN epoch + 1 ELSE 0
       IN IF nxt < num_epochs
          THEN /\ epoch' = nxt
               /\ epoch_bound' = TRUE
               /\ batches_left' = num_train_batches
               /\ epoch_steps' = 0
               /\ pc' = "for_batch"
          ELSE /\ pc' = "finish"
               /\ UNCHANGED <<epoch, epoch_bound, batches_left, epoch_steps>>
    /\ UNCHANGED <<mode, trainArgs, global_step, tf_global_step, val_loss,
                   epoch_validation_losses, min_patience_val_loss,
                   stopped_early, reported, batches_consumed, step_ops,
                   saved, ckpts, predictVars>>

\* for train_batch in train_batch_gen: take the next batch and read the step,
\* or fall through to the end of the epoch when the generator is exhausted
ForBatch ==
    /\ mode = "train" /\ pc = "for_batch"
    /\ IF batches_left > 0
       THEN /\ batches_left' = batches_left - 1
            /\ batches_consumed' = batches_consumed + 1
            /\ global_step' = ReadStep(tf_global_step)
            /\ step_ops' = <<>>
            /\ pc' = "update"
       ELSE /\ pc' = "epoch_save"
            /\ UNCHANGED <<batches_left, batches_consumed, global_step, step_ops>>
    /\ UNCHANGED <<mode, trainArgs, epoch_bound, epoch, tf_global_step,
                   val_loss, epoch_validation_losses, min_patience_val_loss,
                   stopped_early, reported, epoch_steps, saved, ckpts,
                   predictVars>>

\* the gradient update, with a summary written when the step is a log step
Update ==
    /\ mode = "train" /\ pc = "update"
    /\ tf_global_step' = tf_global_step + 1
    /\ epoch_steps' = epoch_steps + 1
    /\ step_ops' = IF ShouldLog(global_step)
                   THEN step_ops \o <<"update", "summary">>
                   ELSE Append(step_ops, "update")
    /\ pc' = "val_check"
    /\ UNCHANGED <<mode, trainArgs, epoch_bound, epoch, global_step,
                   batches_left, val_loss, epoch_validation_losses,
                   min_patience_val_loss, stopped_early, reported,
                   batches_consumed, saved, ckpts, predictVars>>

\* the periodic evaluation on the validation data
ValCheck ==
    /\ mode = "train" /\ pc = "val_check"
    /\ IF ShouldValidate(global_step)
       THEN /\ val_loss' \in Losses
            /\ step_ops' = Append(step_ops, "validate")
       ELSE UNCHANGED <<val_loss, step_ops>>
    /\ pc' = "save_check"
    /\ UNCHANGED <<mode, trainArgs, epoch_bound, epoch, global_step,
                   tf_global_step, batches_left, epoch_validation_losses,
                   min_patience_val_loss, stopped_early, reported,
                   batches_consumed, epoch_steps, saved, ckpts, predictVars>>

\* the periodic model checkpoint
SaveCheck ==
    /\ mode = "train" /\ pc = "save_check"
    /\ IF ShouldSave(global_step)
       THEN /\ ckpts' = SaverSave(ckpts, global_step, SaverMaxToKeep)
            /\ saved' = RecordSave(saved, global_step)
            /\ step_ops' = Append(step_ops, "save")
       ELSE UNCHANGED <<ckpts, saved, step_ops>>
    /\ pc' = "for_batch"
    /\ UNCHANGED <<mode, trainArgs, epoch_bound, epoch, global_step,
                   tf_global_step, batches_left, val_loss,
                   epoch_validation_losses, min_patience_val_loss,
                   stopped_early, reported, batches_consumed, epoch_steps,
                   predictVars>>

\* end of the epoch: save the model
EpochSave ==
    /\ mode = "train" /\ pc = "epoch_save"
    /\ ckpts' = EndOfEpochSave(ckpts, global_step)
    /\ saved' = RecordSave(saved, global_step)
    /\ pc' = "epoch_val"
    /\ UNCHANGED <<mode, trainArgs, epoch_bound, epoch, global_step,
                   tf_global_step, batches_left, val_loss,
                   epoch_validation_losses, min_patience_val_loss,
                   stopped_early, reported, batches_consumed, epoch_steps,
                   step_ops, predictVars>>

\* end of the epoch: evaluate on the validation data and record the loss
EpochVal ==
    /\ mode = "train" /\ pc = "epoch_val"
    /\ \E l \in Losses :
          /\ val_loss' = l
          /\ epoch_validation_losses' = Append(epoch_validation_losses, l)
    /\ pc' = "patience_check"
    /\ UNCHANGED <<mode, trainArgs, epoch_bound, epoch, global_step,
                   tf_global_step, batches_left, min_patience_val_loss,
                   stopped_early, reported, batches_consumed, epoch_steps,
                   step_ops, saved, ckpts, predictVars>>

\* end of the epoch: compare against the lowest loss with regard to the
\* patience threshold and stop if it is not higher than the current loss
PatienceCheck ==
    /\ mode = "train" /\ pc = "patience_check"
    /\ LET m == MinPatienceValLoss(epoch_validation_losses, patience)
       IN /\ min_patience_val_loss' = m
          /\ IF m <= val_loss
             THEN /\ stopped_early' = TRUE
                  /\ pc' = "finish"
             ELSE /\ stopped_early' = FALSE
                  /\ pc' = "for_epoch"
    /\ UNCHANGED <<mode, trainArgs, epoch_bound, epoch, global_step,
                   tf_global_step, batches_left, val_loss,
                   epoch_validation_losses, reported, batches_consumed,
                   epoch_steps, step_ops, saved, ckpts, predictVars>>

\* logger.info("Finished {} epochs!".format(epoch + 1)): reading the loop
\* variable raises UnboundLocalError when the loop body never ran
Finish ==
    /\ mode = "train" /\ pc = "finish"
    /\ IF epoch_bound
       THEN /\ reported' = epoch + 1
            /\ pc' = "done"
       ELSE /\ pc' = "raised"
            /\ UNCHANGED reported
    /\ UNCHANGED <<mode, trainArgs, epoch_bound, epoch, global_step,
                   tf_global_step, batches_left, val_loss,
                   epoch_validation_losses, min_patience_val_loss,
                   stopped_early, batches_consumed, epoch_steps, step_ops,
                   saved, ckpts, predictVars>>

\* ---------------------------------------------------------- predict()
\* sess.run([self.y_pred, ...]) on a batch: one prediction row per instance
RunYPred(batch, step) ==
    [i \in 1..Len(batch) |-> <<"y", step, batch[i]>>]

\* np.concatenate([encode_one, encode_two], axis=1): one row per instance
RunEncodings(batch, step) ==
    [i \in 1..Len(batch) |-> <<"e1", step, batch[i]>> \o <<"e2", step, batch[i]>>]

\* the test loop runs until the generator is exhausted
TestLoopStopsAtNumTestSteps ==
    /\ test_left # <<>>
    /\ (num_test_steps = None \/ Len(y_pred) < num_test_steps[1])
TestLoopContinues ==
    test_left # <<>>

\* load the most recent checkpoint of model_load_dir and get the generator
\* of test batches; restoring from a directory without checkpoints raises
Restore ==
    /\ mode = "predict" /\ pc = "restore"
    /\ IF ckpts = <<>>
       THEN /\ pc' = "raised"
            /\ UNCHANGED <<restored, test_left>>
       ELSE /\ restored' = LatestCheckpoint(ckpts)
            /\ test_left' = test_batches
            /\ pc' = "for_test_batch"
    /\ UNCHANGED <<mode, trainArgs, trainVars, ckpts, num_test_steps,
                   test_batches, y_pred, encodings, y_pred_flat,
                   encodings_flat>>

\* for batch in test_batch_gen: run the model on the next batch
TestBatch ==
    /\ mode = "predict" /\ pc = "for_test_batch"
    /\ IF TestLoopContinues
       THEN /\ y_pred' = Append(y_pred, RunYPred(Head(test_left), restored))
            /\ encodings' = Append(encodings, RunEncodings(Head(test_left), restored))
            /\ test_left' = Tail(test_left)
            /\ pc' = "for_test_batch"
       ELSE /\ pc' = "concatenate"
            /\ UNCHANGED <<y_pred, encodings, test_left>>
    /\ UNCHANGED <<mode, trainArgs, trainVars, ckpts, num_test_steps,
                   test_batches, restored, y_pred_flat, encodings_flat>>

\* np.concatenate(..., axis=0) of both lists; an empty list raises ValueError
Flatten ==
    /\ mode = "predict" /\ pc = "concatenate"
    /\ IF y_pred = <<>>
       THEN /\ pc' = "raised"
            /\ UNCHANGED <<y_pred_flat, encodings_flat>>
       ELSE /\ y_pred_flat' = Concatenate(y_pred)
            /\ encodings_flat' = Concatenate(encodings)
            /\ pc' = "done"
    /\ UNCHANGED <<mode, trainArgs, trainVars, ckpts, num_test_steps,
                   test_batches, test_left, restored, y_pred, encodings>>

\* ------------------------------------------------------ specification
Next ==
    \/ ForEpoch
    \/ ForBatch
    \/ Update
    \/ ValCheck
    \/ SaveCheck
    \/ EpochSave
    \/ EpochVal
    \/ PatienceCheck
    \/ Finish
    \/ Restore
    \/ TestBatch
    \/ Flatten

Spec ==
    Init /\ [][Next]_vars

\* ------------------------------------------------------------ properties
\* the patience comparison of the latest recorded epoch has been made
AfterPatienceCheck ==
    /\ mode = "train"
    /\ pc \in {"for_epoch", "finish", "done"}
    /\ epoch_validation_losses # <<>>

\* epoch n completes a run of p consecutive epochs none of whose losses is
\* lower than the lowest loss recorded before the run
NoImprovementRun(L, n, p) ==
    /\ n > p
    /\ \A i \in (n - p + 1)..n : \E b \in 1..(n - p) : L[b] <= L[i]

\* C1: for patience p >= 1, train() stops early at the end of an epoch
\* exactly when that epoch completes a run of p consecutive epochs with no
\* improvement in validation loss over the lowest loss recorded before the run.
C1_StopsAfterPatienceEpochs ==
    (AfterPatienceCheck /\ patience >= 1)
        => (stopped_early <=>
                NoImprovementRun(epoch_validation_losses,
                                 Len(epoch_validation_losses), patience))

\* the end-of-epoch losses of the `p` epochs before the current one
WindowLosses(L, p) ==
    SubSeq(L, IF Len(L) > p THEN Len(L) - p ELSE 1, Len(L) - 1)

C3_TerminatesCleanly ==
    mode = "train" =>
        /\ pc # "raised"
        /\ pc = "done" =>
              /\ reported = Len(epoch_validation_losses)
              /\ Len(epoch_validation_losses) <= num_epochs
              /\ ~stopped_early => Len(epoch_validation_losses) = num_epochs

\* C4: when an epoch reaches its end-of-epoch checkpoint it has performed
\* exactly num_train_steps_per_epoch gradient updates.
C4_EpochIsNumTrainSteps ==
    (mode = "train" /\ pc = "epoch_save")
        => epoch_steps = num_train_steps_per_epoch

\* what a batch iteration at step s does, in order
ExpectedOps(s) ==
    <<"update">>
    \o (IF s % log_period = 0 THEN <<"summary">> ELSE <<>>)
    \o (IF s % val_period = 0 THEN <<"validate">> ELSE <<>>)
    \o (IF s % save_period = 0 THEN <<"save">> ELSE <<>>)

\* C5: the step number equals the number of train batches processed so far
\* across all epochs, one gradient update is run per batch, and a batch
\* iteration at step s does: the update (with a summary iff s % log_period = 0),
\* then a validation pass iff s % val_period = 0, then a checkpoint iff
\* s % save_period = 0.
C5_StepBookkeeping ==
    mode = "train" =>
        /\ global_step = batches_consumed
        /\ tf_global_step = (IF pc = "update" THEN batches_consumed - 1
                                              ELSE batches_consumed)
        /\ (pc \notin {"update", "val_check", "save_check"} /\ global_step > 0)
              => step_ops = ExpectedOps(global_step)

\* a batch of the second epoch whose step triggers summary, validation and save
C5_Witness ==
    /\ mode = "train" /\ pc = "for_batch"
    /\ epoch = 1
    /\ global_step = 4
    /\ log_period = 2 /\ val_period = 2 /\ save_period = 2
    /\ step_ops = <<"update", "summary", "validate", "save">>

\* C6: from the end-of-epoch save on (so before the stop decision is taken)
\* and after train() has returned, the most recent checkpoint is the one of
\* the final global step.
C6_LatestCheckpointIsFinalStep ==
    (/\ mode = "train"
     /\ \/ pc \in {"epoch_val", "patience_check", "done"}
        \/ pc = "finish" /\ epoch_bound)
        => /\ ckpts # <<>>
           /\ LatestCheckpoint(ckpts) = tf_global_step

\* train() returned after an early stop at a step that is no periodic save step
C6_Witness ==
    /\ mode = "train" /\ pc = "done"
    /\ stopped_early
    /\ tf_global_step > 0
    /\ tf_global_step % save_period # 0

\* the n most recently written checkpoints
MostRecent(history, n) ==
    IF Len(history) <= n THEN history
    ELSE SubSeq(history, Len(history) - n + 1, Len(history))

ExpectedYPred ==
    LET inst == Concatenate(test_batches)
    IN [i \in 1..Len(inst) |-> <<"y", ckpts[Len(ckpts)], inst[i]>>]
ExpectedEncodings ==
    LET inst == Concatenate(test_batches)
    IN [i \in 1..Len(inst) |->
            <<"e1", ckpts[Len(ckpts)], inst[i], "e2", ckpts[Len(ckpts)], inst[i]>>]

\* C8: the outcome of predict() is determined by the checkpoint directory and
\* the test generator alone, whatever num_test_steps is: every batch is
\* processed until the generator is exhausted and both returned arrays hold
\* one row per test instance, in generator order.
C8_NumTestStepsHasNoEffect ==
    mode = "predict" =>
        /\ pc = "concatenate" => (test_left = <<>> /\ Len(y_pred) = Len(test_batches))
        /\ pc = "done" =>
              /\ test_left = <<>>
              /\ y_pred_flat = ExpectedYPred
              /\ encodings_flat = ExpectedEncodings
              /\ Len(y_pred_flat) = Len(encodings_flat)
        /\ pc = "raised" => (ckpts = <<>> \/ test_batches = <<>>)

\* predict() returned after more batches than num_test_steps announced
C8_Witness ==
    /\ mode = "predict" /\ pc = "done"
    /\ num_test_steps = <<1>>
    /\ Len(test_batches) = 2
    /\ Len(y_pred_flat) >= 3

====
